---------------------------- MODULE Spec2Model ----------------------------
(***************************************************************************)
(* Model of the signal engine of backend/app/services/engine.py:           *)
(*   simulate   - the debounced rule state machine (SpecSim)               *)
(*   preprocess - sorting, IQR clipping, bucketing, median (SpecPre, and   *)
(*                SpecSeries for input that is already bucketed)           *)
(*   condition_true - one evaluation of a condition (SpecCond)             *)
(*   propose_rule   - the rule, explanation and confidence proposed from   *)
(*                    the quantiles of a series (SpecPropose)              *)
(*   detect_oscillation - called by the tests, not defined in engine.py;   *)
(*                    taken from section 4.4 of the specification (SpecOsc)*)
(* and of two groups of endpoints of backend/app/main.py:                  *)
(*   create_rule, update_rule, activate_rule (SpecRules)                   *)
(*   ingest_shelly_pull - the point-generation loop (SpecPull)             *)
(* Timestamps of preprocess are counted in half seconds, metric values in  *)
(* 64ths, so that truncation to whole seconds, quartile interpolation and  *)
(* the median of two values are computed exactly.                          *)
(* A Python value that may be None / a missing dict key is modelled as a   *)
(* sequence of length 0 (absent) or 1 (present).                           *)
(***************************************************************************)
EXTENDS Integers, Sequences, FiniteSets, TLC

VARIABLES
    \* ---- simulate(points, metric, rule, sampling_sec) ----
    points,        \* the series passed to simulate: Seq([ts, v])
    rule,          \* the rule document: [states, drops_to_zero]
    sampling_sec,  \* the sampling_sec argument
    idx,           \* number of samples the for-loop has processed
    current,       \* local `current`
    counters,      \* local `counters` (dict key -> elapsed seconds)
    states,        \* local `states`
    events,        \* local `events`
    pc,            \* "loop" | "patterns" | "done" | "raised"
    err,           \* name of the exception that ended the call, "" if none
    hist,          \* per processed sample: what the inner loop saw
    \* ---- preprocess(points, metric, sampling_sec) ----
    heap,          \* the caller's list of point objects (dicts): Seq([ts, v, o])
    heap0,         \* the caller's objects as they were before the call
    pre_s,         \* the sampling_sec argument of preprocess
    out,           \* value returned by preprocess
    out2,          \* value returned by preprocess applied to out
    ppc,           \* "idle" | "call" | "returned" | "again"
    \* ---- one call of a pure function: condition_true, propose_rule, ----
    \* ---- detect_oscillation                                         ----
    fin,           \* the arguments of the call
    fout,          \* what the call returned
    fpc,           \* "idle" | "call" | "returned"
    \* ---- the rule endpoints of main.py ----
    rule_sets,     \* table rule_sets: Seq([device_id, name, json, is_active]), id = index
    resp,          \* the last response: [op, id, status, before]
    \* ---- ingest_shelly_pull(device_id, payload) ----
    payload,       \* the request body: [from_ts, to_ts, interval_sec]
    pull_ts,       \* local `ts`
    pulled,        \* local `points`: the timestamps of the DataPoints built so far
    lpc            \* "idle" | "check" | "loop" | "done" | "rejected"

simVars == <<points, rule, sampling_sec, idx, current, counters, states, events, pc, err, hist>>
preVars == <<heap, heap0, pre_s, out, out2, ppc>>
funVars == <<fin, fout, fpc>>
dbVars == <<rule_sets, resp>>
pullVars == <<payload, pull_ts, pulled, lpc>>
apiVars == <<rule_sets, resp, payload, pull_ts, pulled, lpc>>
vars == <<points, rule, sampling_sec, idx, current, counters, states, events, pc, err, hist,
          heap, heap0, pre_s, out, out2, ppc, fin, fout, fpc,
          rule_sets, resp, payload, pull_ts, pulled, lpc>>

-----------------------------------------------------------------------------
(* Optional values *)
Absent == <<>>
Some(x) == <<x>>
IsPresent(o) == o # <<>>
Get(o) == o[1]

Max2(a, b) == IF a >= b THEN a ELSE b
Min2(a, b) == IF a <= b THEN a ELSE b

-----------------------------------------------------------------------------
(* Bounds of the model *)
MaxSamples == 3    \* longest series given to simulate
MaxPoints == 3     \* longest arbitrary point list given to preprocess
MaxBuckets == 5    \* longest already bucketed series given to preprocess
MaxCondValue == 2  \* largest number given to condition_true
MaxOscLen == 9     \* longest sequence given to detect_oscillation
MaxRules == 3      \* most rows of table rule_sets
MaxPullTs == 4     \* latest from_ts / to_ts of a pull request, in seconds

(* Conditions: the `when` dict of a state definition.  op "" is a dict with *)
(* no "op" key.                                                             *)
Cond(op, value, lo, hi, for_sec) ==
    [op |-> op, value |-> value, min |-> lo, max |-> hi, for_sec |-> for_sec]
EmptyCond == Cond("", Absent, Absent, Absent, Absent)
Gte(v, f) == Cond("gte", Some(v), Absent, Absent, f)
Lte(v, f) == Cond("lte", Some(v), Absent, Absent, f)
Between(lo, hi, f) == Cond("between", Absent, Some(lo), Some(hi), f)

StateDef(name, when, entry, exit) ==
    [name |-> name, when |-> when, entry |-> entry, exit |-> exit]
Named(name, when) == StateDef(Some(name), Some(when), Absent, Absent)
EntryExit(entry, exit) == StateDef(Absent, Absent, Some(entry), Some(exit))

\* drops_to_zero pattern configurations: absent, or {enabled, min_drops?}
Drops(enabled, min_drops) == Some([enabled |-> enabled, min_drops |-> min_drops])


-----------------------------------------------------------------------------
(* Inputs of simulate *)
Vals == {Absent, Some(0), Some(1)}

D_A_gte1      == Named("A", Gte(1, Absent))
D_B_gte0      == Named("B", Gte(0, Absent))
D_A_gte1_for2 == Named("A", Gte(1, Some(2)))
D_OFF_lte0    == Named("OFF", Lte(0, Absent))
D_B_lte0_for0 == Named("B", Lte(0, Some(0)))
D_B_between10 == Named("B", Between(1, 0, Absent))
D_B_badop     == Named("B", Cond("eq", Some(1), Absent, Absent, Absent))
D_A_novalue   == Named("A", Cond("gte", Absent, Absent, Absent, Absent))
D_entry_exit  == EntryExit(Gte(1, Absent), Lte(0, Absent))

Defs == {D_A_gte1, D_B_gte0, D_A_gte1_for2, D_OFF_lte0, D_B_lte0_for0,
         D_B_between10, D_B_badop, D_A_novalue, D_entry_exit}

StateLists == {<<>>} \cup {<<d>> : d \in Defs} \cup {<<d, e>> : d \in Defs, e \in Defs}

PatternConfigs == {Absent, Drops(FALSE, Absent), Drops(TRUE, Absent),
                   Drops(TRUE, Some(0)), Drops(TRUE, Some(1))}

Rules == {[states |-> sl, drops_to_zero |-> pc0] : sl \in StateLists, pc0 \in PatternConfigs}

SamplingSecs == {0, 1, 2}

\* A series at cadence s: sample i carries timestamp (i-1)*s (spacing 1 when s <= 0)
MkSeries(vs, s) == [i \in 1..Len(vs) |-> [ts |-> (i - 1) * Max2(s, 1), v |-> vs[i]]]

ValueSeqs == UNION {[1..n -> Vals] : n \in 0..MaxSamples}

\* The fixture of test_segmentation_and_simulation_start_stop
TestValues == <<0, 0, 1200, 1300, 1250, 100, 0, 0, 0, 0>>
TestSeries == MkSeries([i \in 1..Len(TestValues) |-> Some(TestValues[i])], 10)
TestRule == [states |-> <<EntryExit(Gte(1000, Some(10)), Lte(100, Absent))>>,
             drops_to_zero |-> Absent]

-----------------------------------------------------------------------------
(* condition_true *)
\* cond["value"] / cond["min"] / cond["max"] on a missing key raises KeyError;
\* `cond["min"] <= value <= cond["max"]` reads max only when min <= value.
ConditionRaises(value, cond) ==
    /\ IsPresent(value)
    /\ \/ cond.op \in {"gte", "lte"} /\ ~IsPresent(cond.value)
       \/ /\ cond.op = "between"
          /\ \/ ~IsPresent(cond.min)
             \/ Get(cond.min) <= Get(value) /\ ~IsPresent(cond.max)

\* mutant: gte and lte exclude the bound itself
ConditionTrue_Strict(value, cond) ==
    IF ~IsPresent(value) THEN FALSE
    ELSE IF cond.op = "gte" THEN Get(value) > Get(cond.value)
    ELSE IF cond.op = "lte" THEN Get(value) < Get(cond.value)
    ELSE IF cond.op = "between"
         THEN Get(cond.min) <= Get(value) /\ Get(value) <= Get(cond.max)
    ELSE FALSE

ConditionTrue(value, cond) ==
    IF ~IsPresent(value) THEN FALSE
    ELSE IF cond.op = "gte" THEN Get(value) >= Get(cond.value)
    ELSE IF cond.op = "lte" THEN Get(value) <= Get(cond.value)
    ELSE IF cond.op = "between"
         THEN Get(cond.min) <= Get(value) /\ Get(value) <= Get(cond.max)
    ELSE FALSE

-----------------------------------------------------------------------------
(* simulate: the body of the inner loop over rule["states"] *)
StateWhen(d) == IF IsPresent(d.when) THEN Get(d.when) ELSE EmptyCond
StateName(d) == IF IsPresent(d.name) THEN Get(d.name) ELSE "UNKNOWN"
\* key = f"{name}:{cond}": one dict key per distinct (name, cond) pair
CounterKey(d) == <<StateName(d), StateWhen(d)>>
CounterKeys(r) == {CounterKey(r.states[j]) : j \in 1..Len(r.states)}
ForSec(cond, s) == IF IsPresent(cond.for_sec) THEN Get(cond.for_sec) ELSE s

StepCounter(c, truth, s) == IF truth THEN c + s ELSE 0

\* mutant: the threshold is one sample, whatever for_sec says
ThresholdMet_NoDebounce(c, cond, s) == c >= s

ThresholdMet(c, cond, s) == c >= ForSec(cond, s)

\* mutant: every sample starts from the neutral state
InitialNewState_Neutral(cur) == "OFF"

InitialNewState(cur) == cur

\* One pass of `for state in rule.get("states", [])` for one sample value.
\* acc: counters, new_state, and what each definition saw (ctrAt, truth).
RECURSIVE WalkStates(_, _, _, _, _)
WalkStates(defs, j, value, s, acc) ==
    IF j > Len(defs) \/ acc.raised THEN acc
    ELSE LET cond == StateWhen(defs[j])
             name == StateName(defs[j])
             key  == CounterKey(defs[j])
         IN IF ConditionRaises(value, cond)
            THEN [acc EXCEPT !.raised = TRUE]
            ELSE LET t == ConditionTrue(value, cond)
                     c == StepCounter(acc.counters[key], t, s)
                 IN WalkStates(defs, j + 1, value, s,
                      [counters  |-> [acc.counters EXCEPT ![key] = c],
                       new_state |-> IF ThresholdMet(c, cond, s) THEN name ELSE acc.new_state,
                       ctrAt     |-> Append(acc.ctrAt, c),
                       truth     |-> Append(acc.truth, t),
                       raised    |-> FALSE])

\* mutant: the payload names the two states the wrong way round
StateChange_Reversed(ts, from, to) ==
    [ts |-> ts, type |-> "STATE_CHANGE", payload |-> [from |-> to, to |-> from]]

StateChange(ts, from, to) ==
    [ts |-> ts, type |-> "STATE_CHANGE", payload |-> [from |-> from, to |-> to]]

\* One iteration of `for p in points` (engine.py 61-77)
SimStep ==
    /\ pc = "loop"
    /\ idx < Len(points)
    /\ LET p == points[idx + 1]
           r == WalkStates(rule.states, 1, p.v, sampling_sec,
                           [counters |-> counters, new_state |-> InitialNewState(current),
                            ctrAt |-> <<>>, truth |-> <<>>, raised |-> FALSE])
       IN IF r.raised
          THEN /\ pc' = "raised"
               /\ err' = "KeyError"
               /\ UNCHANGED <<idx, current, counters, states, events, hist>>
          ELSE /\ counters' = r.counters
               /\ events' = IF r.new_state # current
                            THEN Append(events, StateChange(p.ts, current, r.new_state))
                            ELSE events
               /\ current' = r.new_state
               /\ states' = Append(states, [ts |-> p.ts, state |-> r.new_state])
               /\ idx' = idx + 1
               /\ hist' = Append(hist, [value |-> p.v, ctrAt |-> r.ctrAt, truth |-> r.truth,
                                        before |-> counters, after |-> r.counters,
                                        prev |-> current, label |-> r.new_state])
               /\ UNCHANGED <<pc, err>>
    /\ UNCHANGED <<points, rule, sampling_sec>>
    /\ UNCHANGED preVars
    /\ UNCHANGED funVars
    /\ UNCHANGED apiVars

(* simulate: the drops_to_zero post-pass and the return (engine.py 79-89) *)
ValueOrZero(v) == IF IsPresent(v) THEN Get(v) ELSE 0

DropsCount(pts) ==
    Cardinality({i \in 2..Len(pts) :
                   ValueOrZero(pts[i - 1].v) > 0 /\ ValueOrZero(pts[i].v) = 0})

DropsEnabled(r) == IsPresent(r.drops_to_zero) /\ Get(r.drops_to_zero).enabled

MinDrops(r) ==
    IF IsPresent(Get(r.drops_to_zero).min_drops) THEN Get(Get(r.drops_to_zero).min_drops) ELSE 2

\* mutant: the pattern event carries the first sample's timestamp
PatternEventTs_First(pts) == pts[1].ts

\* points[-1]["ts"]
PatternEventTs(pts) == pts[Len(pts)].ts

SimPatterns ==
    /\ pc = "loop"
    /\ idx = Len(points)
    /\ IF DropsEnabled(rule) /\ DropsCount(points) >= MinDrops(rule)
       THEN IF Len(points) = 0
            THEN pc' = "raised" /\ err' = "IndexError" /\ UNCHANGED events
            ELSE /\ events' = Append(events, [ts |-> PatternEventTs(points),
                                              type |-> "DROPS_TO_ZERO",
                                              payload |-> [drops |-> DropsCount(points)]])
                 /\ pc' = "done"
                 /\ UNCHANGED err
       ELSE pc' = "done" /\ UNCHANGED <<events, err>>
    /\ UNCHANGED <<points, rule, sampling_sec, idx, current, counters, states, hist>>
    /\ UNCHANGED preVars
    /\ UNCHANGED funVars
    /\ UNCHANGED apiVars

PreIdle ==
    /\ heap = <<>> /\ heap0 = <<>> /\ pre_s = 1
    /\ out = <<>> /\ out2 = <<>> /\ ppc = "idle"

FunIdle == fin = <<>> /\ fout = <<>> /\ fpc = "idle"

\* a response: the endpoint, the id in its path, the HTTP status, and the
\* table as it was when the request arrived
Response(op, id, status, before) ==
    [op |-> op, id |-> id, status |-> status, before |-> before]
NoResponse == Response("", 0, 0, <<>>)

DbIdle == rule_sets = <<>> /\ resp = NoResponse
PullIdle == payload = <<>> /\ pull_ts = 0 /\ pulled = <<>> /\ lpc = "idle"
ApiIdle == DbIdle /\ PullIdle

SimEntry ==
    /\ idx = 0
    /\ current = "OFF"
    /\ counters = [k \in CounterKeys(rule) |-> 0]
    /\ states = <<>>
    /\ events = <<>>
    /\ pc = "loop"
    /\ err = ""
    /\ hist = <<>>

InitSim ==
    /\ \/ /\ rule \in Rules
          /\ sampling_sec \in SamplingSecs
          /\ \E vs \in ValueSeqs : points = MkSeries(vs, sampling_sec)
       \/ /\ rule = TestRule
          /\ sampling_sec = 10
          /\ points = TestSeries
    /\ SimEntry
    /\ PreIdle
    /\ FunIdle
    /\ ApiIdle

NextSim == SimStep \/ SimPatterns

SpecSim == InitSim /\ [][NextSim]_vars

-----------------------------------------------------------------------------
(* Vocabulary of the simulate claims *)
NDefs == Len(rule.states)
Processed == 1..Len(hist)
DefCond(j) == StateWhen(rule.states[j])
DefName(j) == StateName(rule.states[j])
\* definitions whose counter, as checked on sample i, is at or above for_sec
MetSet(i) == {j \in 1..NDefs : hist[i].ctrAt[j] >= ForSec(DefCond(j), sampling_sec)}
\* definition j was true on samples i-1 and i and had met its threshold on i-1
AlreadyMet(i, j) ==
    /\ i > 1
    /\ hist[i].truth[j] /\ hist[i - 1].truth[j]
    /\ j \in MetSet(i - 1)
SetMin(S) == CHOOSE x \in S : \A y \in S : x <= y
SampleOf(ts) == CHOOSE i \in 1..Len(states) : states[i].ts = ts
StateChanges == {k \in 1..Len(events) : events[k].type = "STATE_CHANGE"}
PrevLabel(i) == IF i = 1 THEN "OFF" ELSE states[i - 1].state
Terminal == pc \in {"done", "raised"}

\* Structural validity of a rule document (spec section 7)
CondValid(c) ==
    /\ c.op \in {"gte", "lte", "between"}
    /\ c.op \in {"gte", "lte"} => IsPresent(c.value)
    /\ c.op = "between" =>
          IsPresent(c.min) /\ IsPresent(c.max) /\ Get(c.min) <= Get(c.max)
DefValid(d) ==
    IF IsPresent(d.when) THEN CondValid(Get(d.when))
    ELSE /\ IsPresent(d.entry) /\ CondValid(Get(d.entry))
         /\ IsPresent(d.exit) /\ CondValid(Get(d.exit))
RuleValid(r, s) == s > 0 /\ \A j \in 1..Len(r.states) : DefValid(r.states[j])

\* C1: on every sample where two or more definitions have their counter at
\* or above for_sec, the label of the sample is the name of the one declared
\* first in rule.states (stated for structurally valid rules, where it
\* already fails).
C1_FirstDeclaredWins ==
    RuleValid(rule, sampling_sec) =>
        \A i \in Processed :
            Cardinality(MetSet(i)) >= 2 => states[i].state = DefName(SetMin(MetSet(i)))

\* C2 (as claimed): a STATE_CHANGE into d is emitted only on the first sample
\* of a run of true evaluations at which d's counter is at or above for_sec
\* (stated for structurally valid rules, where it already fails).
C2_OnlyAtFirstCrossing ==
    RuleValid(rule, sampling_sec) =>
        \A k \in StateChanges :
            LET i == SampleOf(events[k].ts)
            IN \E j \in 1..NDefs :
                  /\ DefName(j) = events[k].payload.to
                  /\ j \in MetSet(i)
                  /\ ~AlreadyMet(i, j)

\* C2 (amended): a STATE_CHANGE into d is emitted only on a sample where the
\* counter of a definition named d is at or above its for_sec threshold,
\* never on a sample where it is below.
C2_OnlyWhenThresholdMet ==
    \A k \in StateChanges :
        LET i == SampleOf(events[k].ts)
        IN \E j \in 1..NDefs :
              /\ DefName(j) = events[k].payload.to
              /\ hist[i].ctrAt[j] >= ForSec(DefCond(j), sampling_sec)

\* a STATE_CHANGE emitted on a sample where every met definition of the target
\* name had already met its threshold on the previous sample of the same run
C2_Witness ==
    /\ pc = "done"
    /\ \E k \in StateChanges :
          LET i == SampleOf(events[k].ts)
              named == {j \in MetSet(i) : DefName(j) = events[k].payload.to}
          IN named # {} /\ \A j \in named : AlreadyMet(i, j)

\* C3: on every sample where no definition's counter has reached for_sec, the
\* label equals the previous sample's label ("OFF" before the first sample)
\* and no STATE_CHANGE carries that sample's timestamp.
C3_HoldsPreviousState ==
    \A i \in Processed :
        MetSet(i) = {} =>
            /\ states[i].state = PrevLabel(i)
            /\ \A k \in StateChanges : events[k].ts # states[i].ts

\* a sample with no threshold met on which a state other than "OFF" is held
C3_Witness ==
    /\ pc = "done"
    /\ \E i \in Processed : i > 1 /\ MetSet(i) = {} /\ states[i].state # "OFF"

\* C4: after each sample, the counter of every definition is 0 if its
\* condition was false on the sample and its previous value plus
\* sampling_sec otherwise, also when two definitions have the same name and
\* condition (stated for structurally valid rules, where it already fails).
C4_CounterPerDefinition ==
    RuleValid(rule, sampling_sec) =>
        \A i \in Processed : \A j \in 1..NDefs :
            LET key == CounterKey(rule.states[j])
            IN hist[i].after[key] =
                  IF hist[i].truth[j] THEN hist[i].before[key] + sampling_sec ELSE 0

\* C5: a structurally invalid rule is rejected before the first sample is
\* processed: simulate neither processes a sample, nor fails, nor returns.
C5_InvalidRuleRejectedEagerly ==
    ~RuleValid(rule, sampling_sec) => idx = 0 /\ pc \in {"loop", "rejected"}

\* C6: on an empty series simulate returns empty states and events and does
\* not raise, whatever the patterns configuration (stated for structurally
\* valid rules, where it already fails).
C6_EmptySeriesNeverFails ==
    (RuleValid(rule, sampling_sec) /\ Len(points) = 0 /\ Terminal) =>
        pc = "done" /\ states = <<>> /\ events = <<>>

\* The two-condition rule variant and its debounced entry mask (spec 4.3)
IsTwoCondition(r) ==
    /\ Len(r.states) = 1
    /\ ~IsPresent(r.states[1].when)
    /\ IsPresent(r.states[1].entry)
EntryWindow(c, s) == Max2(1, ForSec(c, s) \div s)
EntryMask(i) ==
    LET c == Get(rule.states[1].entry)
        w == EntryWindow(c, sampling_sec)
    IN i >= w /\ \A k \in (i - w + 1)..i : ConditionTrue(points[k].v, c)
Rising == {i \in 1..Len(points) : EntryMask(i) /\ (i = 1 \/ ~EntryMask(i - 1))}
Falling == {i \in 2..Len(points) : ~EntryMask(i) /\ EntryMask(i - 1)}
EventsOfType(t) == {k \in 1..Len(events) : events[k].type = t}

\* C10: for a two-condition rule simulate emits START exactly on the samples
\* where the debounced entry mask rises and STOP exactly where it falls; on
\* the test fixture that is one START followed by one STOP.
C10_StartStopEvents ==
    (pc = "done" /\ IsTwoCondition(rule) /\ sampling_sec > 0) =>
        /\ {events[k].ts : k \in EventsOfType("START")} = {points[i].ts : i \in Rising}
        /\ {events[k].ts : k \in EventsOfType("STOP")} = {points[i].ts : i \in Falling}
        /\ (rule = TestRule /\ points = TestSeries) =>
              /\ Cardinality(EventsOfType("START")) = 1
              /\ Cardinality(EventsOfType("STOP")) = 1
              /\ \A a \in EventsOfType("START") : \A b \in EventsOfType("STOP") : a < b

\* the adjacent sample pairs that go from a value above zero to exactly zero
DropPairs == {i \in 2..Len(points) :
                /\ IsPresent(points[i - 1].v) /\ Get(points[i - 1].v) > 0
                /\ (IsPresent(points[i].v) => Get(points[i].v) = 0)}

\* C11: with drops_to_zero enabled, simulate ends with exactly one
\* DROPS_TO_ZERO event, carrying the number of adjacent pairs that go from a
\* value above zero to zero (absent counting as zero), when that number is at
\* least min_drops, and with no such event otherwise (stated for structurally
\* valid rules, where it already fails).
C11_DropsEventIffCount ==
    (RuleValid(rule, sampling_sec) /\ DropsEnabled(rule) /\ Terminal) =>
        LET n == Cardinality(DropPairs)
            d == EventsOfType("DROPS_TO_ZERO")
        IN IF n >= MinDrops(rule)
           THEN Cardinality(d) = 1 /\ \A k \in d : events[k].payload.drops = n
           ELSE d = {}

\* C12: in the event list simulate returns, the STATE_CHANGE events are in
\* non-decreasing timestamp order, a DROPS_TO_ZERO event comes after every
\* STATE_CHANGE event and carries the last sample's timestamp, and the whole
\* list is in non-decreasing timestamp order.
C12_EventsInTimestampOrder ==
    pc = "done" =>
        /\ \A a, b \in StateChanges : a < b => events[a].ts <= events[b].ts
        /\ \A d \in EventsOfType("DROPS_TO_ZERO") :
              /\ \A k \in StateChanges : k < d
              /\ events[d].ts = points[Len(points)].ts
        /\ \A a, b \in 1..Len(events) : a < b => events[a].ts <= events[b].ts

\* a returned event list with a STATE_CHANGE after the first sample, followed
\* by a DROPS_TO_ZERO event on a later sample
C12_Witness ==
    /\ pc = "done"
    /\ \E k \in StateChanges : \E d \in EventsOfType("DROPS_TO_ZERO") :
          /\ points[1].ts < events[k].ts
          /\ events[k].ts < events[d].ts

\* the number of samples in the debounce window of definition j
WindowLen(j) ==
    LET f == ForSec(DefCond(j), sampling_sec)
    IN IF f <= 0 THEN 1 ELSE (f + sampling_sec - 1) \div sampling_sec
\* definition j was true on sample i and on every sample of the window before it
HeldThroughWindow(i, j) ==
    /\ i >= WindowLen(j)
    /\ \A m \in (i - WindowLen(j) + 1)..i : hist[m].truth[j]

\* C18: the machine changes into state d at a sample only if the condition
\* of a definition named d is true at that sample and was true on every
\* sample of the debounce window before it, whatever for_sec is; a sample
\* with an absent value never causes a change of state (stated for
\* structurally valid rules, where it already fails).
C18_ChangeOnlyAfterHeldCondition ==
    RuleValid(rule, sampling_sec) =>
        \A k \in StateChanges :
            LET i == SampleOf(events[k].ts)
            IN /\ IsPresent(hist[i].value)
               /\ \E j \in 1..NDefs :
                     DefName(j) = events[k].payload.to /\ HeldThroughWindow(i, j)

\* the STATE_CHANGE events that precede event k
ChangesBefore(k) == {m \in StateChanges : m < k}
SetMax(S) == CHOOSE x \in S : \A y \in S : x >= y

\* C19: in what simulate returns, states has one entry per input sample, in
\* order, with the sample's timestamp; the label of sample i differs from the
\* previous label ("OFF" before the first sample) exactly when one
\* STATE_CHANGE event carries sample i's timestamp, and that event goes from
\* the previous label to the new, different, label; each STATE_CHANGE starts
\* from the state the preceding one went to, the first from "OFF".
C19_StatesAndEventsConsistent ==
    pc = "done" =>
        /\ Len(states) = Len(points)
        /\ \A i \in 1..Len(states) : states[i].ts = points[i].ts
        /\ \A i \in 1..Len(states) :
              LET evs == {k \in StateChanges : events[k].ts = states[i].ts}
              IN IF states[i].state # PrevLabel(i)
                 THEN /\ Cardinality(evs) = 1
                      /\ \A k \in evs :
                            /\ events[k].payload.from = PrevLabel(i)
                            /\ events[k].payload.to = states[i].state
                            /\ events[k].payload.from # events[k].payload.to
                 ELSE evs = {}
        /\ \A k \in StateChanges :
              events[k].payload.from =
                 IF ChangesBefore(k) = {} THEN "OFF"
                 ELSE events[SetMax(ChangesBefore(k))].payload.to

\* a returned run with two changes of state, the second back out of the first
C19_Witness ==
    /\ pc = "done"
    /\ Len(states) = Len(points)
    /\ \E a, b \in StateChanges :
          /\ a < b
          /\ events[a].payload.from = "OFF"
          /\ events[b].payload.from = events[a].payload.to
          /\ events[b].payload.to # events[b].payload.from

-----------------------------------------------------------------------------
(* preprocess *)
\* a metric value n, in 64ths
Q(n) == 64 * n
\* int(p["ts"].timestamp()): whole seconds of a timestamp given in half seconds
ToSeconds(ts) == ts \div 2
\* datetime.fromtimestamp(bt): the timestamp of a whole second
FromTimestamp(sec) == sec * 2

\* sorted(xs): ascending, ties kept in their original order
SortInts(xs) ==
    LET n == Len(xs)
        rank(i) == Cardinality({j \in 1..n : xs[j] < xs[i] \/ (xs[j] = xs[i] /\ j < i)}) + 1
    IN [r \in 1..n |-> xs[CHOOSE i \in 1..n : rank(i) = r]]

\* sorted(points, key=lambda x: x["ts"]): a new list of the same objects
SortByTs(pts) ==
    LET n == Len(pts)
        rank(i) == Cardinality({j \in 1..n : pts[j].ts < pts[i].ts
                                             \/ (pts[j].ts = pts[i].ts /\ j < i)}) + 1
    IN [r \in 1..n |-> pts[CHOOSE i \in 1..n : rank(i) = r]]

RECURSIVE PresentOf(_, _)
\* [p[m] for p in pts if p.get(m) is not None], for m the field v or o
PresentOf(pts, m) ==
    IF pts = <<>> THEN <<>>
    ELSE LET x == IF m = "v" THEN Head(pts).v ELSE Head(pts).o
         IN (IF IsPresent(x) THEN <<Get(x)>> ELSE <<>>) \o PresentOf(Tail(pts), m)

\* np.quantile(vals, num/4), linear interpolation between order statistics
Quartile(vals, num) ==
    LET a == SortInts(vals)
        h == num * (Len(a) - 1)
        k == h \div 4
        r == h % 4
    IN IF r = 0 THEN a[k + 1] ELSE a[k + 1] + (r * (a[k + 2] - a[k + 1])) \div 4

\* low, high = q1 - 3 * iqr, q3 + 3 * iqr
ClipLow(vals) ==
    LET q1 == Quartile(vals, 1)
        q3 == Quartile(vals, 3)
    IN q1 - 3 * (q3 - q1)
ClipHigh(vals) ==
    LET q1 == Quartile(vals, 1)
        q3 == Quartile(vals, 3)
    IN q3 + 3 * (q3 - q1)

\* the loop of engine.py 20-22: every present value of the metric is clipped
ClipAll(pts) ==
    LET vals == PresentOf(pts, "v")
        low  == ClipLow(vals)
        high == ClipHigh(vals)
    IN [i \in 1..Len(pts) |->
          IF IsPresent(pts[i].v)
          THEN [pts[i] EXCEPT !.v = Some(Max2(low, Min2(high, Get(pts[i].v))))]
          ELSE pts[i]]

\* mutant: the bucket is labelled with its end
Bucket_End(ts, s) == FromTimestamp(ToSeconds(ts) - (ToSeconds(ts) % s) + s)

\* bt = t - (t % sampling_sec); key = datetime.fromtimestamp(bt)
Bucket(ts, s) == FromTimestamp(ToSeconds(ts) - (ToSeconds(ts) % s))

\* statistics.median
Median(xs) ==
    LET a == SortInts(xs)
        n == Len(a)
    IN IF n % 2 = 1 THEN a[(n + 1) \div 2] ELSE (a[n \div 2] + a[n \div 2 + 1]) \div 2

MedianOrAbsent(xs) == IF xs = <<>> THEN Absent ELSE Some(Median(xs))

RECURSIVE SetToSeq(_)
SetToSeq(S) == IF S = {} THEN <<>> ELSE LET x == CHOOSE x \in S : TRUE IN <<x>> \o SetToSeq(S \ {x})

RECURSIVE GroupOf(_, _, _)
\* bucketed[key]: the points of the bucket, in list order
GroupOf(pts, key, s) ==
    IF pts = <<>> THEN <<>>
    ELSE (IF Bucket(Head(pts).ts, s) = key THEN <<Head(pts)>> ELSE <<>>) \o GroupOf(Tail(pts), key, s)

\* engine.py 24-40: group by bucket, one item per bucket in key order
Aggregate(pts, s) ==
    LET keys == SortInts(SetToSeq({Bucket(pts[i].ts, s) : i \in 1..Len(pts)}))
    IN [b \in 1..Len(keys) |->
          LET group == GroupOf(pts, keys[b], s)
          IN [ts |-> keys[b],
              v  |-> MedianOrAbsent(PresentOf(group, "v")),
              o  |-> MedianOrAbsent(PresentOf(group, "o"))]]

\* the value preprocess returns
Preprocess(pts, s) ==
    IF pts = <<>> THEN <<>>
    ELSE LET sorted == SortByTs(pts)
         IN IF PresentOf(sorted, "v") = <<>> THEN sorted
            ELSE Aggregate(ClipAll(sorted), s)

\* the caller's objects after the call: the sorted list holds the same dicts,
\* so the clipping loop writes into them
ObjectsAfter(pts) ==
    IF pts = <<>> \/ PresentOf(pts, "v") = <<>> THEN pts ELSE ClipAll(pts)

\* a call preprocess(points, metric, sampling_sec)
PreCall ==
    /\ ppc = "call"
    /\ out' = Preprocess(heap, pre_s)
    /\ heap' = ObjectsAfter(heap)
    /\ ppc' = "returned"
    /\ UNCHANGED <<heap0, pre_s, out2>>
    /\ UNCHANGED simVars
    /\ UNCHANGED funVars
    /\ UNCHANGED apiVars

\* a second call, on the returned series
PreAgain ==
    /\ ppc = "returned"
    /\ out2' = Preprocess(out, pre_s)
    /\ ppc' = "again"
    /\ UNCHANGED <<heap, heap0, pre_s, out>>
    /\ UNCHANGED simVars
    /\ UNCHANGED funVars
    /\ UNCHANGED apiVars

(* Inputs of preprocess *)
Ticks == {0, 1, 2}
MetricVals == {Absent, Some(Q(0)), Some(Q(1))}
SeriesVals == {Absent, Some(Q(0)), Some(Q(1)), Some(Q(8))}
OtherVals == {Absent, Some(Q(1))}
PreSamplingSecs == {1, 2}
RawPoints == [ts : Ticks, v : MetricVals, o : OtherVals]
\* any list of at most MaxPoints points
PointLists == UNION {[1..n -> RawPoints] : n \in 0..MaxPoints}
\* per bucket start: no sample (Absent) or a sample with a value of SeriesVals
BucketChoices == {Absent} \cup {Some(v) : v \in SeriesVals}
RECURSIVE SeriesOf(_, _, _)
SeriesOf(c, k, s) ==
    IF k >= MaxBuckets THEN <<>>
    ELSE (IF IsPresent(c[k])
          THEN <<[ts |-> FromTimestamp(k * s), v |-> Get(c[k]), o |-> Absent]>>
          ELSE <<>>) \o SeriesOf(c, k + 1, s)
\* the series with at most one sample on each of the first MaxBuckets bucket starts
BucketedSeries(s) == {SeriesOf(c, 0, s) : c \in [0..(MaxBuckets - 1) -> BucketChoices]}

SimIdle ==
    /\ points = <<>>
    /\ rule = [states |-> <<>>, drops_to_zero |-> Absent]
    /\ sampling_sec = 1
    /\ idx = 0 /\ current = "OFF" /\ counters = <<>> /\ states = <<>> /\ events = <<>>
    /\ pc = "idle" /\ err = "" /\ hist = <<>>

InitPre ==
    /\ pre_s \in PreSamplingSecs
    /\ heap \in PointLists \cup BucketedSeries(pre_s)
    /\ heap0 = heap
    /\ out = <<>> /\ out2 = <<>>
    /\ ppc = "call"
    /\ SimIdle
    /\ FunIdle
    /\ ApiIdle

NextPre == PreCall \/ PreAgain

SpecPre == InitPre /\ [][NextPre]_vars

\* the point lists, in any order, with every timestamp on a different bucket start
AlignedLists(s) ==
    LET aligned == {p \in RawPoints : p.ts = Bucket(p.ts, s)}
    IN {pl \in UNION {[1..n -> aligned] : n \in 0..MaxPoints} :
           \A i, j \in 1..Len(pl) : i # j => pl[i].ts # pl[j].ts}

\* preprocess called on series that are already bucketed at cadence pre_s
InitSeries ==
    /\ pre_s \in PreSamplingSecs
    /\ heap \in BucketedSeries(pre_s) \cup AlignedLists(pre_s)
    /\ heap0 = heap
    /\ out = <<>> /\ out2 = <<>>
    /\ ppc = "call"
    /\ SimIdle
    /\ FunIdle
    /\ ApiIdle

SpecSeries == InitSeries /\ [][NextPre]_vars

-----------------------------------------------------------------------------
(* Vocabulary of the preprocess claims *)
Returned == ppc \in {"returned", "again"}
OnBucketStart(ts, s) == ToSeconds(ts) % s = 0 /\ FromTimestamp(ToSeconds(ts)) = ts
\* at most one sample per bucket, every timestamp on a bucket start
IsBucketed(pts, s) ==
    /\ \A i \in 1..Len(pts) : OnBucketStart(pts[i].ts, s)
    /\ \A i, j \in 1..Len(pts) : i # j => pts[i].ts # pts[j].ts

\* C7: for every non-empty input the output has strictly increasing
\* timestamps, each the bucket start of an input point, and no two output
\* samples share a bucket.
C7_OutputStrictlyIncreasingBuckets ==
    (Returned /\ heap0 # <<>>) =>
        /\ \A i \in 1..(Len(out) - 1) : out[i].ts < out[i + 1].ts
        /\ \A i \in 1..Len(out) :
              /\ OnBucketStart(out[i].ts, pre_s)
              /\ \E k \in 1..Len(heap0) :
                    out[i].ts = FromTimestamp((ToSeconds(heap0[k].ts) \div pre_s) * pre_s)
        /\ \A i, j \in 1..Len(out) :
              i # j => ToSeconds(out[i].ts) \div pre_s # ToSeconds(out[j].ts) \div pre_s

\* C8: after preprocess returns, every point object the caller passed in has
\* the timestamp and the metric values it had before the call.
C8_InputNotMutated ==
    Returned => heap = heap0

\* C9: on input with at most one sample per bucket and every timestamp on a
\* bucket start, preprocessing the output again returns the same series.
C9_IdempotentOnBucketed ==
    (ppc = "again" /\ IsBucketed(heap0, pre_s)) => out2 = out

\* a bucketed series of which the first call clipped a value, preprocessed twice
C9_Witness ==
    /\ ppc = "again"
    /\ IsBucketed(heap0, pre_s)
    /\ Len(heap0) >= 5
    /\ \E i \in 1..Len(out) : out[i].v # heap0[i].v
    /\ out2 = out

\* floor(ts / sampling_sec) * sampling_sec of an input timestamp
BucketStartOf(ts, s) == FromTimestamp((ToSeconds(ts) \div s) * s)

\* C13: the output has exactly one sample per distinct value of
\* floor(ts / sampling_sec) * sampling_sec over the input points, and every
\* output timestamp is the bucket of at least one input point.
C13_OneSamplePerOccupiedBucket ==
    Returned =>
        /\ Len(out) = Cardinality({BucketStartOf(heap0[k].ts, pre_s) : k \in 1..Len(heap0)})
        /\ \A i \in 1..Len(out) :
              \E k \in 1..Len(heap0) : out[i].ts = BucketStartOf(heap0[k].ts, pre_s)

\* the orderings of a list
Orderings(n) == {f \in [1..n -> 1..n] : \A i, j \in 1..n : i # j => f[i] # f[j]}
Permuted(pts, f) == [i \in 1..Len(pts) |-> pts[f[i]]]

\* C20: preprocess returns the same series for every ordering of the same
\* input points.
C20_OrderInsensitive ==
    Returned =>
        \A f \in Orderings(Len(heap0)) : Preprocess(Permuted(heap0, f), pre_s) = out

-----------------------------------------------------------------------------
(* condition_true called on its own *)
CondNums == (0 - 1)..MaxCondValue
CondValues == {Absent} \cup {Some(n) : n \in CondNums}
\* well-formed conditions, and conditions with a missing key or an unknown op
Conditions ==
    {Gte(t, Absent) : t \in CondNums} \cup {Lte(t, Absent) : t \in CondNums}
    \cup {Between(lo, hi, Absent) : lo \in CondNums, hi \in CondNums}
    \cup {Cond("gte", Absent, Absent, Absent, Absent),
          Cond("lte", Absent, Absent, Absent, Absent),
          Cond("between", Absent, Absent, Some(1), Absent),
          Cond("between", Absent, Some(0), Absent, Absent),
          Cond("eq", Some(1), Absent, Absent, Absent),
          EmptyCond}

\* a call condition_true(value, cond): its return value, or the KeyError
CondCall ==
    /\ fpc = "call"
    /\ fout' = IF ConditionRaises(fin.value, fin.cond)
               THEN [result |-> Absent, err |-> "KeyError"]
               ELSE [result |-> Some(ConditionTrue(fin.value, fin.cond)), err |-> ""]
    /\ fpc' = "returned"
    /\ UNCHANGED fin
    /\ UNCHANGED simVars
    /\ UNCHANGED preVars
    /\ UNCHANGED apiVars

InitCond ==
    /\ fin \in [value : CondValues, cond : Conditions]
    /\ fout = <<>>
    /\ fpc = "call"
    /\ SimIdle
    /\ PreIdle
    /\ ApiIdle

NextCond == CondCall

SpecCond == InitCond /\ [][NextCond]_vars

\* C14: condition_true returns false for an absent value under every
\* condition; for a present value v it returns v >= value for gte,
\* v <= value for lte and min <= v <= max for between.
C14_ConditionSemantics ==
    fpc = "returned" =>
        LET v == fin.value
            c == fin.cond
        IN /\ ~IsPresent(v) => fout = [result |-> Some(FALSE), err |-> ""]
           /\ (IsPresent(v) /\ c.op = "gte" /\ IsPresent(c.value)) =>
                 fout = [result |-> Some(Get(v) >= Get(c.value)), err |-> ""]
           /\ (IsPresent(v) /\ c.op = "lte" /\ IsPresent(c.value)) =>
                 fout = [result |-> Some(Get(v) <= Get(c.value)), err |-> ""]
           /\ (IsPresent(v) /\ c.op = "between" /\ IsPresent(c.min) /\ IsPresent(c.max)) =>
                 fout = [result |-> Some(Get(c.min) <= Get(v) /\ Get(v) <= Get(c.max)),
                         err |-> ""]

\* a present value equal to the bound of a gte condition, evaluated to true
C14_Witness ==
    /\ fpc = "returned"
    /\ IsPresent(fin.value)
    /\ fin.cond.op = "gte" /\ IsPresent(fin.cond.value)
    /\ Get(fin.value) = Get(fin.cond.value)
    /\ fout = [result |-> Some(TRUE), err |-> ""]

-----------------------------------------------------------------------------
(* propose_rule *)
(* The points are given by their content: c_none points without the metric, *)
(* c_lo points with value lo and c_hi points with value hi (lo < hi, whole   *)
(* numbers).  propose_rule only takes quantiles and the length of the list   *)
(* of present values, so their order in the list plays no part.  Thresholds  *)
(* are in hundredths, the confidence in ten-thousandths.                     *)
PresentCount(in) == in.c_lo + in.c_hi
\* the k-th smallest present value, k counted from 0
ValAt(in, k) == IF k < in.c_lo THEN in.lo ELSE in.hi
\* den * np.quantile(vals, num/den), linear interpolation
QuantileTimes(in, num, den) ==
    LET h == num * (PresentCount(in) - 1)
        k == h \div den
        r == h % den
    IN den * ValAt(in, k) + r * (ValAt(in, k + 1) - ValAt(in, k))
P50(in) == 50 * QuantileTimes(in, 1, 2)
P90(in) == 10 * QuantileTimes(in, 9, 10)
P70(in) == 10 * QuantileTimes(in, 7, 10)

ProposedRule(name, metric, s, sts, osc, drops) ==
    [name |-> name, metric |-> metric, sampling_sec |-> s, states |-> sts,
     oscillation |-> osc, drops_to_zero |-> drops]
ExplanationOf(device_type, in) ==
    [text |-> "Template", device_type |-> Some(device_type),
     p50 |-> Some(P50(in)), p90 |-> Some(P90(in))]

WattsRule(in) ==
    LET start     == Max2(500, (P90(in) * 6) \div 10)
        idle_low  == 100
        idle_high == Max2(500, P50(in) \div 2)
    IN ProposedRule(Absent, Some("watts"), Some(30),
          <<Named("RUNNING", Gte(start, Some(60))),
            Named("IDLE_ON", Between(idle_low, idle_high, Some(180))),
            Named("OFF", Lte(50, Some(60)))>>,
          Some([enabled |-> TRUE, band |-> <<P50(in) \div 2, (P50(in) * 3) \div 2>>,
                period_sec |-> 120, tolerance_sec |-> 60, for_cycles |-> 3]),
          Drops(TRUE, Some(2)))
OnRule ==
    ProposedRule(Absent, Some("on"), Some(10),
          <<Named("RUNNING", Gte(100, Some(10))), Named("OFF", Lte(0, Some(10)))>>,
          Absent, Drops(FALSE, Absent))
OtherRule(in) ==
    LET thr == P70(in)
    IN ProposedRule(Absent, Some(in.metric), Some(30),
          <<Named("RUNNING", Gte(thr, Some(60))),
            Named("OFF", Lte(Max2(0, (thr * 4) \div 10), Some(120)))>>,
          Absent, Drops(FALSE, Absent))

\* mutant: no cap at 0.99
Score_Uncapped(n) == Max2(5500, 2 * n)

\* min(0.99, max(0.55, len(vals) / 5000))
Score(n) == Min2(9900, Max2(5500, 2 * n))

\* mutant: an empty series gets the template with its default thresholds
EmptyProposal_Defaults(metric) ==
    [rule |-> ProposedRule(Absent, Some(metric), Some(30),
                 <<Named("RUNNING", Gte(500, Some(60))), Named("OFF", Lte(50, Some(60)))>>,
                 Absent, Drops(FALSE, Absent)),
     exp |-> [text |-> "Template", device_type |-> Absent, p50 |-> Absent, p90 |-> Absent],
     score |-> 5500]

\* return {"name": "empty", "states": []}, "No data", 0.0
EmptyProposal(metric) ==
    [rule |-> ProposedRule(Some("empty"), Absent, Absent, <<>>, Absent, Absent),
     exp |-> [text |-> "No data", device_type |-> Absent, p50 |-> Absent, p90 |-> Absent],
     score |-> 0]

ProposeRule(in) ==
    IF PresentCount(in) = 0 THEN EmptyProposal(in.metric)
    ELSE [rule |-> IF in.metric = "watts" THEN WattsRule(in)
                   ELSE IF in.metric = "on" THEN OnRule
                   ELSE OtherRule(in),
          exp |-> ExplanationOf(in.device_type, in),
          score |-> Score(PresentCount(in))]

\* a call propose_rule(points, metric, device_type)
ProposeCall ==
    /\ fpc = "call"
    /\ fout' = ProposeRule(fin)
    /\ fpc' = "returned"
    /\ UNCHANGED fin
    /\ UNCHANGED simVars
    /\ UNCHANGED preVars
    /\ UNCHANGED apiVars

Metrics == {"watts", "on", "lux"}
\* how many points carry one value: a few, and counts on either side of
\* 0.55 * 5000 and of 0.99 * 5000
CountChoices == {0, 1, 2, 3, 4, 2749, 2750, 2751, 4949, 4950, 4951}

InitPropose ==
    /\ fin \in [metric : Metrics, device_type : {"fridge"}, lo : {0, 1}, hi : {4, 10},
                c_none : {0, 2}, c_lo : CountChoices, c_hi : CountChoices]
    /\ fout = <<>>
    /\ fpc = "call"
    /\ SimIdle
    /\ PreIdle
    /\ ApiIdle

NextPropose == ProposeCall

SpecPropose == InitPropose /\ [][NextPropose]_vars

(* Vocabulary of the propose_rule claims *)
\* the threshold of the first state (RUNNING) and the upper threshold of the
\* second (IDLE_ON or OFF)
EntryThreshold(r) == Get(StateWhen(r.states[1]).value)
IdleThreshold(r) ==
    LET c == StateWhen(r.states[2])
    IN IF c.op = "between" THEN Get(c.max) ELSE Get(c.value)
EntryAboveIdle(r) == Len(r.states) >= 2 /\ EntryThreshold(r) > IdleThreshold(r)

C16_EmptySeriesGetsTemplate ==
    (fpc = "returned" /\ fin.c_lo + fin.c_hi = 0) => Len(fout.rule.states) > 0

\* C16 (amended): when no point carries the metric, the proposer returns the
\* rule named "empty" with no states, the explanation "No data" and the
\* confidence 0.0.
C16_EmptySeriesGetsEmptyRule ==
    (fpc = "returned" /\ fin.c_lo + fin.c_hi = 0) =>
        /\ fout.rule.name = Some("empty")
        /\ fout.rule.states = <<>>
        /\ fout.exp.text = "No data"
        /\ fout.score = 0

\* a call on points none of which carries the metric
C16_Witness ==
    /\ fpc = "returned"
    /\ fin.c_lo + fin.c_hi = 0
    /\ fin.c_none > 0
    /\ fout.rule.states = <<>>

-----------------------------------------------------------------------------
(* detect_oscillation, as described in section 4.4 of the specification and *)
(* called by test_detect_oscillation_true.  The tolerance is a fraction      *)
(* num/den; the comparisons with the mean and the amplitude are done on      *)
(* cross-multiplied whole numbers.                                           *)
RECURSIVE SumOf(_)
SumOf(xs) == IF xs = <<>> THEN 0 ELSE Head(xs) + SumOf(Tail(xs))
\* the sign of vals[i] - mean(vals)
CenteredSign(vals, i) ==
    LET d == Len(vals) * vals[i] - SumOf(vals)
    IN IF d > 0 THEN 1 ELSE IF d < 0 THEN 0 - 1 ELSE 0
SignChanges(vals) ==
    Cardinality({i \in 1..(Len(vals) - 1) : CenteredSign(vals, i) # CenteredSign(vals, i + 1)})

\* mutant: every sign change counts as a cycle
Cycles_PerChange(vals) == SignChanges(vals)

\* cycles = sign changes / 2, integer division
Cycles(vals) == SignChanges(vals) \div 2

\* den * quantile(vals, num/den), linear interpolation
QuantileOfTimes(vals, num, den) ==
    LET a == SortInts(vals)
        h == num * (Len(a) - 1)
        k == h \div den
        r == h % den
    IN den * a[k + 1] + (IF r = 0 THEN 0 ELSE r * (a[k + 2] - a[k + 1]))
\* (p90 - p10) / max(mean, 1e-6) >= tol.num / tol.den
AmplitudeAtLeast(vals, tol) ==
    LET spread == QuantileOfTimes(vals, 9, 10) - QuantileOfTimes(vals, 1, 10)
        sum == SumOf(vals)
    IN IF sum > 0
       THEN spread * Len(vals) * tol.den >= tol.num * 10 * sum
       ELSE spread * 1000000 * tol.den >= tol.num * 10

MinOscLen == 8
DetectOscillation(vals, tol, min_cycles) ==
    IF Len(vals) < MinOscLen THEN [detected |-> FALSE, cycles |-> 0]
    ELSE [detected |-> Cycles(vals) >= min_cycles /\ AmplitudeAtLeast(vals, tol),
          cycles |-> Cycles(vals)]

\* a call detect_oscillation(vals, tolerance, min_cycles)
OscCall ==
    /\ fpc = "call"
    /\ fout' = DetectOscillation(fin.vals, fin.tolerance, fin.min_cycles)
    /\ fpc' = "returned"
    /\ UNCHANGED fin
    /\ UNCHANGED simVars
    /\ UNCHANGED preVars
    /\ UNCHANGED apiVars

\* the call of test_detect_oscillation_true
OscFixture ==
    [vals |-> <<0, 10, 0, 10, 0, 10, 0, 10, 0>>,
     tolerance |-> [num |-> 1, den |-> 5], min_cycles |-> 3]
OscSeqs == UNION {[1..n -> {0, 10}] : n \in (MinOscLen - 1)..MaxOscLen}
Tolerances == {[num |-> 1, den |-> 5], [num |-> 3, den |-> 1]}

InitOsc ==
    /\ fin \in [vals : OscSeqs, tolerance : Tolerances, min_cycles : {3, 5}]
    /\ fout = <<>>
    /\ fpc = "call"
    /\ SimIdle
    /\ PreIdle
    /\ ApiIdle

NextOsc == OscCall

SpecOsc == InitOsc /\ [][NextOsc]_vars

\* the adjacent pairs of which one value is above the mean and the other is
\* not, or one is below the mean and the other is not
CrossingPairs ==
    LET n == Len(fin.vals)
        sum == SumOf(fin.vals)
        above(i) == n * fin.vals[i] > sum
        below(i) == n * fin.vals[i] < sum
    IN {i \in 1..(n - 1) : above(i) # above(i + 1) \/ below(i) # below(i + 1)}

\* C17: given at least 8 values, the oscillation detector reports as cycles
\* half the number of sign changes of the mean-centred values (integer
\* division) and reports detected exactly when cycles >= min_cycles and
\* amplitude >= tolerance; on [0,10,0,10,0,10,0,10,0] with tolerance 0.2 and
\* min_cycles 3 it reports detected with at least 3 cycles.
C17_OscillationDetector ==
    (fpc = "returned" /\ Len(fin.vals) >= 8) =>
        /\ fout.cycles = Cardinality(CrossingPairs) \div 2
        /\ fout.detected <=> (/\ fout.cycles >= fin.min_cycles
                              /\ AmplitudeAtLeast(fin.vals, fin.tolerance))
        /\ fin = OscFixture => fout.detected /\ fout.cycles >= 3

\* the call of the test has returned: detected, with 4 cycles
C17_Witness ==
    /\ fpc = "returned"
    /\ fin = OscFixture
    /\ fout = [detected |-> TRUE, cycles |-> 4]

-----------------------------------------------------------------------------
(* create_rule, update_rule, activate_rule (main.py 201-231).  Each request *)
(* runs in one database session and commits once, at its end.               *)
Devices == {1, 2}
\* device ids of requests; 3 is the id of no device
DeviceIds == {1, 2, 3}
\* RuleCreate bodies: name and json, no other field
Payloads == {[name |-> "a", json |-> 1], [name |-> "b", json |-> 2]}
RuleIds == 1..(MaxRules + 1)

\* RuleSet(device_id=device_id, **payload.model_dump()); is_active defaults to False
RuleRow(d, p) == [device_id |-> d, name |-> p.name, json |-> p.json, is_active |-> FALSE]

CreateRule(d, p) ==
    /\ IF d \notin Devices
       THEN /\ resp' = Response("create", d, 404, rule_sets)
            /\ UNCHANGED rule_sets
       ELSE /\ Len(rule_sets) < MaxRules
            /\ rule_sets' = Append(rule_sets, RuleRow(d, p))
            /\ resp' = Response("create", Len(rule_sets) + 1, 200, rule_sets)
    /\ UNCHANGED pullVars
    /\ UNCHANGED <<simVars, preVars, funVars>>

UpdateRule(id, p) ==
    /\ IF id \notin 1..Len(rule_sets)
       THEN /\ resp' = Response("update", id, 404, rule_sets)
            /\ UNCHANGED rule_sets
       ELSE /\ rule_sets' = [rule_sets EXCEPT ![id].name = p.name, ![id].json = p.json]
            /\ resp' = Response("update", id, 200, rule_sets)
    /\ UNCHANGED pullVars
    /\ UNCHANGED <<simVars, preVars, funVars>>

\* mutant: the rules of the device are left as they are
DeactivateDevice_Skipped(tbl, d) == tbl

\* db.query(RuleSet).filter(RuleSet.device_id == item.device_id).update({is_active: False})
DeactivateDevice(tbl, d) ==
    [i \in 1..Len(tbl) |->
        IF tbl[i].device_id = d THEN [tbl[i] EXCEPT !.is_active = FALSE] ELSE tbl[i]]

ActivateRule(id) ==
    /\ IF id \notin 1..Len(rule_sets)
       THEN /\ resp' = Response("activate", id, 404, rule_sets)
            /\ UNCHANGED rule_sets
       ELSE /\ rule_sets' = [DeactivateDevice(rule_sets, rule_sets[id].device_id)
                                EXCEPT ![id].is_active = TRUE]
            /\ resp' = Response("activate", id, 200, rule_sets)
    /\ UNCHANGED pullVars
    /\ UNCHANGED <<simVars, preVars, funVars>>

InitRules ==
    /\ DbIdle
    /\ PullIdle
    /\ SimIdle
    /\ PreIdle
    /\ FunIdle

NextRules ==
    \/ \E d \in DeviceIds : \E p \in Payloads : CreateRule(d, p)
    \/ \E id \in RuleIds : \E p \in Payloads : UpdateRule(id, p)
    \/ \E id \in RuleIds : ActivateRule(id)

SpecRules == InitRules /\ [][NextRules]_vars

\* the ids of the active rules of device d
ActiveOf(tbl, d) == {i \in 1..Len(tbl) : tbl[i].device_id = d /\ tbl[i].is_active}

\* C21: after any sequence of create_rule, update_rule and activate_rule
\* requests every device has at most one active rule; right after a
\* successful activate_rule(r), r is the only active rule of its device and
\* the active flag of every rule of another device is what it was before.
C21_AtMostOneActivePerDevice ==
    /\ \A d \in Devices : Cardinality(ActiveOf(rule_sets, d)) <= 1
    /\ (resp.op = "activate" /\ resp.status = 200) =>
          LET d == rule_sets[resp.id].device_id
          IN /\ ActiveOf(rule_sets, d) = {resp.id}
             /\ \A i \in 1..Len(rule_sets) :
                   rule_sets[i].device_id # d =>
                      rule_sets[i].is_active = resp.before[i].is_active

\* a rule was activated while another rule of its device was the active one
\* and another device had an active rule
C21_Witness ==
    /\ resp.op = "activate" /\ resp.status = 200
    /\ \E i \in 1..Len(resp.before) :
          /\ i # resp.id
          /\ resp.before[i].device_id = rule_sets[resp.id].device_id
          /\ resp.before[i].is_active
    /\ \E i \in 1..Len(rule_sets) :
          rule_sets[i].device_id # rule_sets[resp.id].device_id /\ rule_sets[i].is_active

-----------------------------------------------------------------------------
(* ingest_shelly_pull (main.py 144-168).  Timestamps are whole seconds.     *)
PullTimes == 0..MaxPullTs
\* interval_sec: int = 30, any integer
Intervals == (0 - 1)..2
\* the model stops a loop that has built this many points
MaxPulled == MaxPullTs + 2

\* if payload.from_ts >= payload.to_ts: raise HTTPException(400); ts = payload.from_ts
PullCheck ==
    /\ lpc = "check"
    /\ IF payload.from_ts >= payload.to_ts
       THEN lpc' = "rejected" /\ UNCHANGED <<pull_ts, pulled>>
       ELSE /\ pull_ts' = payload.from_ts
            /\ pulled' = <<>>
            /\ lpc' = "loop"
    /\ UNCHANGED payload
    /\ UNCHANGED dbVars
    /\ UNCHANGED <<simVars, preVars, funVars>>

\* one iteration of `while ts <= payload.to_ts`
PullStep ==
    /\ lpc = "loop"
    /\ pull_ts <= payload.to_ts
    /\ Len(pulled) < MaxPulled
    /\ pulled' = Append(pulled, pull_ts)
    /\ pull_ts' = pull_ts + payload.interval_sec
    /\ UNCHANGED <<payload, lpc>>
    /\ UNCHANGED dbVars
    /\ UNCHANGED <<simVars, preVars, funVars>>

\* the loop has ended: db.add_all(points); db.commit()
PullStore ==
    /\ lpc = "loop"
    /\ pull_ts > payload.to_ts
    /\ lpc' = "done"
    /\ UNCHANGED <<payload, pull_ts, pulled>>
    /\ UNCHANGED dbVars
    /\ UNCHANGED <<simVars, preVars, funVars>>

InitPull ==
    /\ payload \in [from_ts : PullTimes, to_ts : PullTimes, interval_sec : Intervals]
    /\ pull_ts = 0
    /\ pulled = <<>>
    /\ lpc = "check"
    /\ DbIdle
    /\ SimIdle
    /\ PreIdle
    /\ FunIdle

NextPull == PullCheck \/ PullStep \/ PullStore

SpecPull == InitPull /\ [][NextPull]_vars

\* C22: for every accepted pull request the loop terminates, which it does
\* by moving ts past every point it has built, towards to_ts; the points
\* are at from_ts, from_ts + interval_sec, ..., none later than to_ts, and
\* when the loop has ended there are floor((to_ts - from_ts) / interval_sec)
\* + 1 of them.
C22_PullLoopTerminatesWithExactCount ==
    /\ (lpc = "loop" /\ pulled # <<>>) => pull_ts > pulled[Len(pulled)]
    /\ \A k \in 1..Len(pulled) :
          /\ pulled[k] = payload.from_ts + (k - 1) * payload.interval_sec
          /\ pulled[k] <= payload.to_ts
    /\ lpc = "done" =>
          /\ payload.interval_sec > 0
          /\ Len(pulled) = (payload.to_ts - payload.from_ts) \div payload.interval_sec + 1

=============================================================================
